---- MODULE Spec2Model ----
(***************************************************************************)
(* Lunch Roulette: the shared state document (src/lib/stateStore.ts), its  *)
(* HTTP route (src/app/api/state/route.ts) and the React client component  *)
(* (lunch-roulette-client, src/unnamed/part_001).                          *)
(*                                                                         *)
(* JavaScript values are tagged records, so that typeof, truthiness and    *)
(* the coercions of the source are computed and not assumed.  Time is      *)
(* counted in ticks; one week is WeekMs ticks (the source counts ms).      *)
(***************************************************************************)
EXTENDS Integers, Sequences, FiniteSets, TLC

(***************************************************************************)
(* Bounds of the model.                                                    *)
(***************************************************************************)
WeekMs == 1
MaxTime == 3
MaxLen == 2
EligMaxTime == 7
RawMaxLen == 2
MaxInFlight == 1
MaxTimers == 1
MaxRequests == 2
MaxBurst == 2

(***************************************************************************)
(* JavaScript values.                                                      *)
(***************************************************************************)
Undefined == [type |-> "undefined"]
Num(n) == [type |-> "number", val |-> n]
NaN == [type |-> "number", special |-> "NaN"]
Infinity == [type |-> "number", special |-> "Infinity"]
Null == [type |-> "null"]
Str(s) == [type |-> "string", val |-> s]
Bool(b) == [type |-> "boolean", val |-> b]
Arr(s) == [type |-> "array", val |-> s]

TypeOf(v) == IF v.type \in {"array", "null"} THEN "object" ELSE v.type
IsArray(v) == v.type = "array"
IsFinite(v) == v.type = "number" /\ "val" \in DOMAIN v

\* ToBoolean: undefined, 0, NaN, "" and false are falsy.
Truthy(v) ==
  CASE v.type \in {"undefined", "null"} -> FALSE
    [] v.type = "number" -> IF IsFinite(v) THEN v.val # 0 ELSE v.special # "NaN"
    [] v.type = "string" -> v.val # ""
    [] v.type = "boolean" -> v.val
    [] OTHER -> TRUE

\* Property read r.f of any value: a primitive has no own fields.
Field(r, f) == IF r.type = "object" /\ f \in DOMAIN r THEN r[f] ELSE Undefined

Map(s, F(_)) == [i \in 1..Len(s) |-> F(s[i])]

\* Number(v), on the values the model feeds it.
ToNumber(v) ==
  CASE v.type = "number" -> v
    [] v.type = "null" -> Num(0)
    [] v.type = "boolean" -> IF v.val THEN Num(1) ELSE Num(0)
    [] v.type = "string" /\ v.val = "" -> Num(0)
    [] v.type = "string" /\ v.val = "3" -> Num(3)
    [] OTHER -> NaN

\* JSON.parse(JSON.stringify(v)) of a primitive: NaN and Infinity become null;
\* an undefined property is left out and reads as undefined again.
JSONValue(v) == IF v.type = "number" /\ ~IsFinite(v) THEN Null ELSE v

(***************************************************************************)
(* The selection rule of the client.                                       *)
(***************************************************************************)
WEEKS_TO_MS(weeks) == weeks * WeekMs

\* Eligible with the blacklist test left out.
EligibleIgnoringBlacklist(r, cooldownPeriodInMs, t) ==
  \/ ~Truthy(r.lastSelectedDate)
  \/ t - r.lastSelectedDate.val > cooldownPeriodInMs

Eligible(r, cooldownPeriodInMs, t) ==
  /\ ~Truthy(r.blacklisted)
  /\ \/ ~Truthy(r.lastSelectedDate)
     \/ t - r.lastSelectedDate.val > cooldownPeriodInMs

availableRestaurantsAt(rs, cooldownPeriodInMs, t) ==
  SelectSeq(rs, LAMBDA r : Eligible(r, cooldownPeriodInMs, t))

isRestaurantOnCooldown(r, cooldownPeriodInMs, t) ==
  IF ~Truthy(r.lastSelectedDate)
    THEN FALSE
    ELSE (t - r.lastSelectedDate.val) < cooldownPeriodInMs

(***************************************************************************)
(* The state store (flat-file variant).                                    *)
(***************************************************************************)
Restaurant(id, name, blacklisted, lastSelectedDate) ==
  [type |-> "object", id |-> id, name |-> name, blacklisted |-> blacklisted,
   lastSelectedDate |-> lastSelectedDate]

ServerState(rs, cw, ab) ==
  [restaurants |-> rs, cooldownWeeks |-> cw, activatedBy |-> ab]

DefaultCooldownWeeks == 2
DefaultState == ServerState(Arr(<<>>), Num(DefaultCooldownWeeks), Undefined)

\* normalizeRestaurant writing the stamp as a string, as it does id and name.
normalizeRestaurantStringDate(r) ==
  Restaurant(r.id, r.name, Bool(Truthy(Field(r, "blacklisted"))),
             IF TypeOf(Field(r, "lastSelectedDate")) = "number"
               THEN Str("0") ELSE Undefined)

normalizeRestaurant(r) ==
  Restaurant(r.id, r.name, Bool(Truthy(Field(r, "blacklisted"))),
             IF TypeOf(Field(r, "lastSelectedDate")) = "number"
               THEN r.lastSelectedDate ELSE Undefined)

\* normalizeCooldownWeeks without the test for a positive number.
normalizeCooldownWeeksAnySign(x) ==
  LET cooldownWeeksNumber == ToNumber(x)
  IN  IF IsFinite(cooldownWeeksNumber)
        THEN cooldownWeeksNumber ELSE Num(DefaultCooldownWeeks)

normalizeCooldownWeeks(x) ==
  LET cooldownWeeksNumber == ToNumber(x)
  IN  IF IsFinite(cooldownWeeksNumber) /\ cooldownWeeksNumber.val > 0
        THEN cooldownWeeksNumber ELSE Num(DefaultCooldownWeeks)

\* normalizeState keeping every row that has a string id, whatever its name.
normalizeStateIdOnly(input) ==
  ServerState(
    IF IsArray(input.restaurants)
      THEN Arr(Map(SelectSeq(input.restaurants.val,
                     LAMBDA r : Truthy(r) /\ TypeOf(Field(r, "id")) = "string"),
                   normalizeRestaurant))
      ELSE Arr(<<>>),
    normalizeCooldownWeeks(input.cooldownWeeks),
    IF TypeOf(input.activatedBy) = "string" THEN input.activatedBy ELSE Undefined)

normalizeState(input) ==
  ServerState(
    IF IsArray(input.restaurants)
      THEN Arr(Map(SelectSeq(input.restaurants.val,
                     LAMBDA r : /\ Truthy(r)
                                /\ TypeOf(Field(r, "id")) = "string"
                                /\ TypeOf(Field(r, "name")) = "string"),
                   normalizeRestaurant))
      ELSE Arr(<<>>),
    normalizeCooldownWeeks(input.cooldownWeeks),
    IF TypeOf(input.activatedBy) = "string" THEN input.activatedBy ELSE Undefined)

\* The file's content after JSON.stringify, as JSON.parse gives it back.
JSONState(state) ==
  ServerState(
    Arr(Map(state.restaurants.val,
            LAMBDA r : [r EXCEPT !.lastSelectedDate = JSONValue(@)])),
    JSONValue(state.cooldownWeeks),
    state.activatedBy)

\* What fs.readFile meets instead of a document: no file, a file it may not
\* read, a text JSON.parse rejects.
NoFile == [code |-> "ENOENT"]
Unreadable == [code |-> "EACCES"]
Unparsable == [text |-> "{"]

\* An exception leaving a function, with its err.code.
Thrown(code) == [throws |-> code]
IsThrown(result) == "throws" \in DOMAIN result

readServerState(file) ==
  IF "code" \in DOMAIN file
    THEN IF file.code \in {"ENOENT", "ENOTDIR"} THEN DefaultState ELSE Thrown(file.code)
    ELSE IF file = Unparsable
      THEN Thrown("undefined")
      ELSE normalizeState(file)

writeServerState(state) == JSONState(normalizeState(state))

\* PUTNext without the merge: the request body replaces the document.
PUTNextReplacing(body, current) == body

\* The document PUT builds from the request body and the current document.
PUTNext(body, current) ==
  ServerState(
    IF IsArray(body.restaurants) THEN body.restaurants ELSE current.restaurants,
    IF TypeOf(body.cooldownWeeks) = "number"
      THEN body.cooldownWeeks ELSE current.cooldownWeeks,
    IF TypeOf(body.activatedBy) = "string"
      THEN body.activatedBy ELSE current.activatedBy)

(***************************************************************************)
(* State.                                                                  *)
(***************************************************************************)
VARIABLES
  store,                 \* data/state.json: NoFile or the document written last
  exchange,              \* the HTTP exchange the server completed last
  net,                   \* requests and responses in flight
  now,                   \* Date.now()
  nextId,                \* how many ids crypto.randomUUID() has handed out
  mounted,               \* per client: the component is mounted
  restaurants,           \* per client: useState restaurants
  cooldownWeeks,         \* per client: useState cooldownWeeks
  activatedBy,           \* per client: useState activatedBy
  isActivated,           \* per client: localStorage "isActivated"
  isStateLoading,        \* per client: useState isStateLoading
  availableRestaurants,  \* per client: the memoised eligible list
  onCooldown,            \* per client: isRestaurantOnCooldown of each row, as rendered
  timers,                \* per client: pending setTimeout callbacks with their closures
  toast,                 \* per client: the title of the toast shown last
  pc                     \* which run this is, and how far the pure runs are

serverVars == <<store, exchange>>
clientVars == <<mounted, restaurants, cooldownWeeks, activatedBy, isActivated,
                isStateLoading, availableRestaurants, onCooldown, timers, toast>>
vars == <<serverVars, net, now, nextId, clientVars, pc>>

Clients == {"c1", "c2"}
sessionId == [c \in Clients |-> IF c = "c1" THEN "s1" ELSE "s2"]
SECRET_CODE == "LizRulz!"
CooldownChoices == {1, 2, 3, 4}

UUIDs == <<"u1", "u2", "u3", "u4">>
randomUUID(n) == UUIDs[n]

SeqsUpTo(S, n) == UNION {[1..k -> S] : k \in 0..n}

NoExchange == [method |-> "none"]

\* The state of a component that has just been constructed.
InitClients ==
  /\ mounted = [c \in Clients |-> FALSE]
  /\ restaurants = [c \in Clients |-> <<>>]
  /\ cooldownWeeks = [c \in Clients |-> 2]
  /\ activatedBy = [c \in Clients |-> Undefined]
  /\ isActivated = [c \in Clients |-> FALSE]
  /\ isStateLoading = [c \in Clients |-> TRUE]
  /\ availableRestaurants = [c \in Clients |-> <<>>]
  /\ onCooldown = [c \in Clients |-> <<>>]
  /\ timers = [c \in Clients |-> <<>>]
  /\ toast = [c \in Clients |-> "none"]

InitServer ==
  /\ store = NoFile
  /\ exchange = NoExchange
  /\ net = {}

(***************************************************************************)
(* What one render of the list computes (lines 142-150 and 276-280).       *)
(***************************************************************************)
cooldownPeriodInMs(cw) == WEEKS_TO_MS(cw)

MemoAvailable(rs, cw, t) == availableRestaurantsAt(rs, cooldownPeriodInMs(cw), t)

RenderCooldown(rs, cw, t) ==
  [i \in 1..Len(rs) |-> isRestaurantOnCooldown(rs[i], cooldownPeriodInMs(cw), t)]

(***************************************************************************)
(* The selection rule on its own: any loaded list, any setting, any time.  *)
(***************************************************************************)
EligStamps == {Undefined} \cup {Num(t) : t \in 0..EligMaxTime}

EligLists ==
  {rs \in SeqsUpTo([b : {Bool(FALSE), Bool(TRUE)}, d : EligStamps], MaxLen) : TRUE}

EligRestaurants(raw) ==
  [i \in 1..Len(raw) |-> Restaurant(Str(randomUUID(i)), Str("A"), raw[i].b, raw[i].d)]

InitElig ==
  /\ InitServer
  /\ nextId = 0
  /\ pc = "elig"
  /\ now \in 0..EligMaxTime
  /\ mounted = [c \in Clients |-> c = "c1"]
  /\ \E raw \in EligLists :
       restaurants = [c \in Clients |-> IF c = "c1" THEN EligRestaurants(raw) ELSE <<>>]
  /\ \E cw \in CooldownChoices :
       cooldownWeeks = [c \in Clients |-> IF c = "c1" THEN cw ELSE 2]
  /\ activatedBy = [c \in Clients |-> Undefined]
  /\ isActivated = [c \in Clients |-> FALSE]
  /\ isStateLoading = [c \in Clients |-> c # "c1"]
  /\ availableRestaurants = [c \in Clients |-> <<>>]
  /\ onCooldown = [c \in Clients |-> <<>>]
  /\ timers = [c \in Clients |-> <<>>]
  /\ toast = [c \in Clients |-> "none"]

RenderList(c) ==
  /\ pc = "elig"
  /\ pc' = "rendered"
  /\ availableRestaurants' =
       [availableRestaurants EXCEPT ![c] = MemoAvailable(restaurants[c], cooldownWeeks[c], now)]
  /\ onCooldown' =
       [onCooldown EXCEPT ![c] = RenderCooldown(restaurants[c], cooldownWeeks[c], now)]
  /\ UNCHANGED <<serverVars, net, now, nextId, mounted, restaurants, cooldownWeeks,
                 activatedBy, isActivated, isStateLoading, timers, toast>>

NextElig == RenderList("c1")

SpecElig == InitElig /\ [][NextElig]_vars

(***************************************************************************)
(* Claims about the selection rule, under SpecElig.                        *)
(***************************************************************************)
\* Row i of client c's list is in its memoised eligible list.
InAvailable(c, i) ==
  \E j \in 1..Len(availableRestaurants[c]) :
    availableRestaurants[c][j].id = restaurants[c][i].id

Stamped(r) == TypeOf(r.lastSelectedDate) = "number"

\* C1: the eligible list the client computes is exactly the rows, in list
\* order, that are not blacklisted and whose stamp is missing or older than
\* cooldownWeeks weeks, a stamp of any numeric value (0 too) being a stamp.
C1_EligibleIsSpecFilter ==
  pc = "rendered" =>
    availableRestaurants["c1"] =
      SelectSeq(restaurants["c1"],
        LAMBDA r : /\ r.blacklisted = Bool(FALSE)
                   /\ \/ ~Stamped(r)
                      \/ now - r.lastSelectedDate.val > cooldownWeeks["c1"] * WeekMs)

\* C4: for a stamped row that is not blacklisted, 'on cooldown' and
\* 'eligible' are complements at every instant: ineligible and on cooldown up
\* to and including now = t + W, eligible and off cooldown after it.  (Stated
\* for stamps t > 0; a stamp of 0 is the case of C1.)
C4_CooldownComplementsEligible ==
  pc = "rendered" =>
    \A i \in 1..Len(restaurants["c1"]) :
      LET r == restaurants["c1"][i]
          W == cooldownWeeks["c1"] * WeekMs
      IN  (Stamped(r) /\ r.lastSelectedDate.val > 0 /\ r.blacklisted = Bool(FALSE)) =>
            /\ now <= r.lastSelectedDate.val + W => (~InAvailable("c1", i) /\ onCooldown["c1"][i])
            /\ now > r.lastSelectedDate.val + W => (InAvailable("c1", i) /\ ~onCooldown["c1"][i])

\* C5: no blacklisted row is in the eligible list, whatever its stamp.
C5_BlacklistedNeverEligible ==
  pc = "rendered" =>
    \A i \in 1..Len(restaurants["c1"]) :
      Truthy(restaurants["c1"][i].blacklisted) => ~InAvailable("c1", i)

\* A rendered list holding a blacklisted row without a stamp, a blacklisted row
\* whose cooldown has run out, and an eligible row.
C5_Witness ==
  /\ pc = "rendered"
  /\ Len(availableRestaurants["c1"]) > 0
  /\ \E i \in 1..Len(restaurants["c1"]) :
       LET r == restaurants["c1"][i]
       IN  /\ Truthy(r.blacklisted)
           /\ Stamped(r) /\ r.lastSelectedDate.val > 0
           /\ now - r.lastSelectedDate.val > cooldownWeeks["c1"] * WeekMs
           /\ ~InAvailable("c1", i)

(***************************************************************************)
(* The route on its own: GET and PUT with any request body, one request    *)
(* at a time.  exchange holds the request being answered, with the         *)
(* handler's locals, until the response is sent.                           *)
(***************************************************************************)
RawElements ==
  { Restaurant(Str("u1"), Str("A"), Bool(FALSE), Undefined),
    Restaurant(Str("u2"), Str("B"), Str("yes"), Num(0)),
    Restaurant(Num(7), Str("C"), Bool(FALSE), Str("never")) }
RawRestaurants ==
  {Undefined, Str("none")} \cup {Arr(rs) : rs \in SeqsUpTo(RawElements, RawMaxLen)}
RawCooldownWeeks == {Undefined, Num(-1), Num(0), Num(1), Num(3), Str("3"), Infinity}
RawActivatedBy == {Undefined, Str("s1"), Str("s2"), Num(1)}
RawBodies ==
  {ServerState(rs, cw, ab) :
     rs \in RawRestaurants, cw \in RawCooldownWeeks, ab \in RawActivatedBy}

\* What Response.json sends of a document: JSON has no NaN or Infinity.
ResponseJSON(state) ==
  ServerState(
    IF IsArray(state.restaurants)
      THEN Arr(Map(state.restaurants.val,
                   LAMBDA r : IF r.type = "object"
                                THEN [r EXCEPT !.lastSelectedDate = JSONValue(@)]
                                ELSE r))
      ELSE state.restaurants,
    JSONValue(state.cooldownWeeks),
    state.activatedBy)

GET ==
  /\ pc = "server"
  /\ exchange = NoExchange
  /\ exchange' = [method |-> "GET", status |-> 200,
                  response |-> ResponseJSON(readServerState(store))]
  /\ UNCHANGED <<store, net, now, nextId, clientVars, pc>>

PUT(body) ==
  /\ pc = "server"
  /\ exchange = NoExchange
  /\ LET current == readServerState(store)
         next == PUTNext(body, current)
     IN  /\ store' = writeServerState(next)
         /\ exchange' = [method |-> "PUT", body |-> body, current |-> current,
                         status |-> 200, response |-> ResponseJSON(next)]
  /\ UNCHANGED <<net, now, nextId, clientVars, pc>>

\* req.json() throws on a body that is not JSON: the catch answers 400.
PUTMalformed ==
  /\ pc = "server"
  /\ exchange = NoExchange
  /\ exchange' = [method |-> "PUT", status |-> 400]
  /\ UNCHANGED <<store, net, now, nextId, clientVars, pc>>

\* The response leaves; the next request is taken.
Respond ==
  /\ pc = "server"
  /\ exchange # NoExchange
  /\ exchange' = NoExchange
  /\ UNCHANGED <<store, net, now, nextId, clientVars, pc>>

InitRoute ==
  /\ InitServer
  /\ InitClients
  /\ now = 1
  /\ nextId = 0
  /\ pc = "server"

NextRoute ==
  \/ GET
  \/ \E body \in RawBodies : PUT(body)
  \/ PUTMalformed
  \/ Respond

SpecRoute == InitRoute /\ [][NextRoute]_vars

(***************************************************************************)
(* Claims about the route, under SpecRoute.                                *)
(***************************************************************************)
PutAnswered == exchange.method = "PUT" /\ exchange.status = 200

\* C9: a PUT merges only the fields its body carries: with no other request
\* in between, each of restaurants, cooldownWeeks and activatedBy that the
\* body leaves out is, in the stored and in the returned document, what it
\* was before the PUT.
C9_PutKeepsFieldsNotCarried ==
  PutAnswered =>
    LET body == exchange.body
        current == exchange.current
        response == exchange.response
    IN  /\ body.restaurants = Undefined =>
              /\ store.restaurants = current.restaurants
              /\ response.restaurants = current.restaurants
        /\ body.cooldownWeeks = Undefined =>
              /\ store.cooldownWeeks = current.cooldownWeeks
              /\ response.cooldownWeeks = current.cooldownWeeks
        /\ body.activatedBy = Undefined =>
              /\ store.activatedBy = current.activatedBy
              /\ response.activatedBy = current.activatedBy

\* PUT {cooldownWeeks: 3} answered against a document that had restaurants,
\* an activator and another cooldown.
C9_Witness ==
  /\ PutAnswered
  /\ exchange.body = ServerState(Undefined, Num(3), Undefined)
  /\ Len(exchange.current.restaurants.val) > 0
  /\ TypeOf(exchange.current.activatedBy) = "string"
  /\ exchange.current.cooldownWeeks # Num(3)
  /\ store.cooldownWeeks = Num(3)

\* C10: in a PUT each of restaurants, cooldownWeeks and activatedBy falls back
\* to the current stored value when the request leaves it out or gives an
\* invalid one: a cooldownWeeks that is not a positive finite number leaves
\* the stored cooldownWeeks as it was, a restaurants that is no array leaves
\* the stored list as it was.
C10_InvalidFallsBackToCurrent ==
  PutAnswered =>
    LET body == exchange.body
        current == exchange.current
    IN  /\ ~IsArray(body.restaurants) => store.restaurants = current.restaurants
        /\ ~(IsFinite(body.cooldownWeeks) /\ body.cooldownWeeks.val > 0) =>
              store.cooldownWeeks = current.cooldownWeeks
        /\ TypeOf(body.activatedBy) # "string" =>
              store.activatedBy = current.activatedBy

\* C11: the document in the 200 response of a PUT is the normalized document
\* that was persisted, that is what a GET sent right after it answers.
C11_PutReturnsStoredDocument ==
  PutAnswered => exchange.response = ResponseJSON(readServerState(store))

\* No two rows of a document's restaurants share an id.
UniqueIds(restaurantsValue) ==
  IsArray(restaurantsValue) =>
    \A i, j \in 1..Len(restaurantsValue.val) :
      (i # j /\ restaurantsValue.val[i].type = "object"
             /\ restaurantsValue.val[j].type = "object") =>
        restaurantsValue.val[i].id # restaurantsValue.val[j].id

\* C13: restaurant ids are unique in the stored document and in every
\* document a GET or a PUT returns.
C13_RestaurantIdsUnique ==
  /\ store # NoFile => UniqueIds(store.restaurants)
  /\ (exchange # NoExchange /\ exchange.status = 200) =>
        UniqueIds(exchange.response.restaurants)

PositiveFinite(v) == IsFinite(v) /\ v.val > 0

\* C14: the stored document and every document readServerState returns has
\* a finite cooldownWeeks greater than 0, whatever PUT bodies were received.
C14_CooldownWeeksPositive ==
  /\ store # NoFile => PositiveFinite(store.cooldownWeeks)
  /\ PositiveFinite(readServerState(store).cooldownWeeks)
  /\ PutAnswered => PositiveFinite(exchange.current.cooldownWeeks)

\* A PUT carrying cooldownWeeks 0 was answered against a stored 3, and a GET
\* of the document it left would read the default.
C14_Witness ==
  /\ PutAnswered
  /\ exchange.body.cooldownWeeks = Num(0)
  /\ exchange.current.cooldownWeeks = Num(3)
  /\ readServerState(store).cooldownWeeks = Num(DefaultCooldownWeeks)

(***************************************************************************)
(* normalizeState on its own: any parsed input, normalized and normalized  *)
(* again.  exchange holds the input and the results.                       *)
(***************************************************************************)
NormElements ==
  RawElements \cup
    { Null,
      Restaurant(Str("u3"), Str(""), Num(0), NaN),
      Restaurant(Str("u4"), Str("D"), Undefined, Num(2)),
      [type |-> "object", id |-> Str("u5"), name |-> Str("E"), note |-> Str("x")],
      [type |-> "object", name |-> Str("F"), blacklisted |-> Bool(TRUE)],
      [type |-> "object", id |-> Str("u6"), name |-> Num(5)] }
NormInputs ==
  {ServerState(rs, cw, ab) @@ extra :
     rs \in {Undefined, Str("none")} \cup {Arr(l) : l \in SeqsUpTo(NormElements, RawMaxLen)},
     cw \in RawCooldownWeeks \cup {NaN, Null},
     ab \in RawActivatedBy,
     extra \in {<<>>, [theme |-> Str("dark")]}}

InitNorm ==
  /\ store = NoFile
  /\ net = {}
  /\ InitClients
  /\ now = 1
  /\ nextId = 0
  /\ pc = "normalize"
  /\ \E input \in NormInputs : exchange = [method |-> "input", input |-> input]

Normalize ==
  /\ pc = "normalize"
  /\ exchange.method = "input"
  /\ exchange' = [method |-> "normalizeState", input |-> exchange.input,
                  once |-> normalizeState(exchange.input)]
  /\ UNCHANGED <<store, net, now, nextId, clientVars, pc>>

NormalizeAgain ==
  /\ pc = "normalize"
  /\ exchange.method = "normalizeState"
  /\ exchange' = [method |-> "normalizeState twice", input |-> exchange.input,
                  once |-> exchange.once, twice |-> normalizeState(exchange.once)]
  /\ UNCHANGED <<store, net, now, nextId, clientVars, pc>>

NextNorm == Normalize \/ NormalizeAgain

SpecNorm == InitNorm /\ [][NextNorm]_vars

\* C12: normalization is idempotent: normalizing a normalized document gives
\* the same restaurants sequence, cooldownWeeks and activatedBy.
C12_NormalizeIdempotent ==
  exchange.method = "normalizeState twice" =>
    /\ exchange.twice.restaurants = exchange.once.restaurants
    /\ exchange.twice.cooldownWeeks = exchange.once.cooldownWeeks
    /\ exchange.twice.activatedBy = exchange.once.activatedBy

\* An input that normalization changed in every field (a row dropped, a row
\* kept with a numeric stamp, the cooldown defaulted, the activator dropped)
\* has been normalized twice.
C12_Witness ==
  /\ exchange.method = "normalizeState twice"
  /\ IsArray(exchange.input.restaurants)
  /\ Len(exchange.once.restaurants.val) = 1
  /\ Len(exchange.input.restaurants.val) = 2
  /\ TypeOf(exchange.once.restaurants.val[1].lastSelectedDate) = "number"
  /\ exchange.input.cooldownWeeks = Num(0)
  /\ exchange.once.cooldownWeeks = Num(DefaultCooldownWeeks)
  /\ exchange.input.activatedBy = Num(1)
  /\ exchange.once.activatedBy = Undefined

\* The rows of a raw list that have a string id and a string name.
HasStringIdAndName(r) ==
  /\ r.type = "object"
  /\ "id" \in DOMAIN r /\ r.id.type = "string"
  /\ "name" \in DOMAIN r /\ r.name.type = "string"

\* C26: normalizeState is the stated sanitising rule: a restaurants that is
\* no array gives the empty sequence; the output rows are the input rows with
\* a string id and a string name, in their order, blacklisted made a boolean
\* (false when missing), lastSelectedDate kept only if a number; cooldownWeeks
\* is the input as a number if that is finite and above 0, else 2;
\* activatedBy is kept only if a string; there is no other field.
C26_NormalizeIsSanitisingRule ==
  exchange.method = "normalizeState" =>
    LET input == exchange.input
        output == exchange.once
        kept == IF input.restaurants.type = "array"
                  THEN SelectSeq(input.restaurants.val, HasStringIdAndName)
                  ELSE <<>>
        asNumber == ToNumber(input.cooldownWeeks)
    IN  /\ DOMAIN output = {"restaurants", "cooldownWeeks", "activatedBy"}
        /\ output.restaurants.type = "array"
        /\ Len(output.restaurants.val) = Len(kept)
        /\ \A i \in 1..Len(kept) :
             LET r == kept[i]
                 o == output.restaurants.val[i]
             IN  /\ DOMAIN o = {"type", "id", "name", "blacklisted", "lastSelectedDate"}
                 /\ o.id = r.id /\ o.name = r.name
                 /\ o.blacklisted \in {Bool(FALSE), Bool(TRUE)}
                 /\ "blacklisted" \notin DOMAIN r => o.blacklisted = Bool(FALSE)
                 /\ ("blacklisted" \in DOMAIN r /\ r.blacklisted.type = "boolean") =>
                      o.blacklisted = r.blacklisted
                 /\ ("blacklisted" \in DOMAIN r /\ r.blacklisted.type # "boolean") =>
                      o.blacklisted = Bool(Truthy(r.blacklisted))
                 /\ o.lastSelectedDate =
                      IF "lastSelectedDate" \in DOMAIN r /\ r.lastSelectedDate.type = "number"
                        THEN r.lastSelectedDate ELSE Undefined
        /\ output.cooldownWeeks =
             IF "val" \in DOMAIN asNumber /\ asNumber.val > 0
               THEN asNumber ELSE Num(2)
        /\ output.activatedBy =
             IF input.activatedBy.type = "string" THEN input.activatedBy ELSE Undefined

\* Normalized: a list of a row without a name and a row with a field of its
\* own and no blacklisted, a cooldown given as the string "3", a string
\* activator, and a top-level field of its own.
C26_Witness ==
  /\ exchange.method = "normalizeState"
  /\ "theme" \in DOMAIN exchange.input
  /\ exchange.input.restaurants =
       Arr(<<[type |-> "object", name |-> Str("F"), blacklisted |-> Bool(TRUE)],
             [type |-> "object", id |-> Str("u5"), name |-> Str("E"), note |-> Str("x")]>>)
  /\ exchange.input.cooldownWeeks = Str("3")
  /\ exchange.input.activatedBy = Str("s1")
  /\ Len(exchange.once.restaurants.val) = 1
  /\ exchange.once.cooldownWeeks = Num(3)

(***************************************************************************)
(* The route over a backing store that can fail, in both variants of the   *)
(* store: the flat file of src/lib/stateStore.ts and the hosted database   *)
(* of route.ts lines 35-109.  pc names the variant.                        *)
(***************************************************************************)
Variants == {"flat-file", "hosted-database"}

\* The table has no row: data is null.
NoRow == [data |-> "null"]

\* How a call of the backing store ends: fs promises resolve or reject; a
\* supabase query resolves with data, resolves with an error, or rejects.
IOOutcomes(variant) ==
  IF variant = "flat-file" THEN {"ok", "thrown"} ELSE {"ok", "error returned", "thrown"}

\* What fs.readFile gives readServerState (line 22).
fsReadFile(file, outcome) == IF outcome = "ok" THEN file ELSE Unreadable

\* readServerState of the hosted-database variant (lines 56-72).
readServerStateHosted(row, outcome) ==
  IF outcome = "thrown"
    THEN DefaultState
    ELSE LET data == IF outcome = "ok" THEN row ELSE NoRow
         IN  IF data = NoRow
               THEN DefaultState
               ELSE IF data = Unparsable THEN DefaultState ELSE normalizeState(data)

readServerStateOf(variant, content, outcome) ==
  IF variant = "flat-file"
    THEN readServerState(fsReadFile(content, outcome))
    ELSE readServerStateHosted(content, outcome)

\* writeServerState of either variant (stateStore.ts 34-38, route.ts 74-89):
\* what the store holds afterwards, and whether the function throws.  The
\* hosted variant awaits the upsert and never looks at the error it resolves with.
writeServerStateOf(variant, state, content, outcome) ==
  [content |-> IF outcome = "ok" THEN JSONState(normalizeState(state)) ELSE content,
   throws |-> outcome = "thrown"]

FaultBodies ==
  {ServerState(rs, cw, ab) :
     rs \in {Undefined, Arr(<<>>),
             Arr(<<Restaurant(Str("u1"), Str("A"), Bool(FALSE), Undefined)>>)},
     cw \in {Undefined, Num(1), Num(3)},
     ab \in {Undefined, Str("s1")}}

InitFaults ==
  /\ pc \in Variants
  /\ store = IF pc = "flat-file" THEN NoFile ELSE NoRow
  /\ exchange = NoExchange
  /\ net = {}
  /\ InitClients
  /\ now = 1
  /\ nextId = 0

\* The stored text is damaged, or the file is made unreadable.
StoreFault ==
  /\ pc \in Variants
  /\ exchange = NoExchange
  /\ store' \in IF pc = "flat-file" THEN {Unparsable, Unreadable} ELSE {Unparsable}
  /\ store' # store
  /\ UNCHANGED <<exchange, net, now, nextId, clientVars, pc>>

\* GET (lines 4-7) has no catch: an exception of readServerState is answered
\* by the framework with status 500.
GETOverFaults(readOutcome) ==
  /\ pc \in Variants
  /\ exchange = NoExchange
  /\ readOutcome \in IOOutcomes(pc)
  /\ LET state == readServerStateOf(pc, store, readOutcome)
     IN  exchange' =
           IF IsThrown(state)
             THEN [method |-> "GET", read |-> readOutcome, write |-> "none", status |-> 500]
             ELSE [method |-> "GET", read |-> readOutcome, write |-> "none", status |-> 200,
                   response |-> ResponseJSON(state)]
  /\ UNCHANGED <<store, net, now, nextId, clientVars, pc>>

\* PUT (lines 9-32): the catch answers every exception with status 400.
PUTOverFaults(body, readOutcome, writeOutcome) ==
  /\ pc \in Variants
  /\ exchange = NoExchange
  /\ readOutcome \in IOOutcomes(pc) /\ writeOutcome \in IOOutcomes(pc)
  /\ LET current == readServerStateOf(pc, store, readOutcome)
     IN  IF IsThrown(current)
           THEN /\ exchange' = [method |-> "PUT", read |-> readOutcome, write |-> "none",
                                status |-> 400]
                /\ UNCHANGED store
           ELSE LET next == PUTNext(body, current)
                    written == writeServerStateOf(pc, next, store, writeOutcome)
                IN  /\ store' = written.content
                    /\ exchange' =
                         IF written.throws
                           THEN [method |-> "PUT", read |-> readOutcome,
                                 write |-> writeOutcome, status |-> 400]
                           ELSE [method |-> "PUT", read |-> readOutcome,
                                 write |-> writeOutcome, status |-> 200,
                                 current |-> current, response |-> ResponseJSON(next)]
  /\ UNCHANGED <<net, now, nextId, clientVars, pc>>

RespondOverFaults ==
  /\ pc \in Variants
  /\ exchange # NoExchange
  /\ exchange' = NoExchange
  /\ UNCHANGED <<store, net, now, nextId, clientVars, pc>>

NextFaults ==
  \/ StoreFault
  \/ \E readOutcome \in IOOutcomes("hosted-database") : GETOverFaults(readOutcome)
  \/ \E body \in FaultBodies : \E readOutcome, writeOutcome \in IOOutcomes("hosted-database") :
       PUTOverFaults(body, readOutcome, writeOutcome)
  \/ RespondOverFaults

SpecFaults == InitFaults /\ [][NextFaults]_vars

\* The store holds no document a read can give back.
NoDocument == store \in {NoFile, NoRow, Unparsable, Unreadable}

\* C15: a read never fails the request: with no document yet, or a read of
\* the backing store that fails for whatever reason, GET answers 200 with the
\* default document, and the current document of a PUT is the default one.
C15_ReadsFallBackToDefault ==
  /\ exchange # NoExchange /\ exchange.method = "GET" =>
       /\ exchange.status = 200
       /\ (NoDocument \/ exchange.read # "ok") =>
            exchange.response = ResponseJSON(DefaultState)
  /\ (exchange # NoExchange /\ exchange.method = "PUT" /\ exchange.read # "ok") =>
       (exchange.write # "none" /\ (exchange.status = 200 => exchange.current = DefaultState))

\* C16: a PUT whose write to the backing store failed is answered with an
\* error, never with 200 and a document.
C16_WriteFailureSurfaced ==
  (exchange # NoExchange /\ exchange.method = "PUT"
     /\ exchange.write \notin {"ok", "none"}) =>
    exchange.status # 200

(***************************************************************************)
(* The route answering PUTs concurrently: each await of the handler (the   *)
(* read of line 12, the write of line 18) lets another request run.  net   *)
(* holds the requests being handled, with the handler's locals.            *)
(***************************************************************************)
ConcurrentBodies ==
  { ServerState(Undefined, Num(3), Undefined),
    ServerState(Undefined, Num(1), Undefined),
    ServerState(Arr(<<Restaurant(Str("u1"), Str("A"), Bool(FALSE), Undefined)>>),
                Undefined, Undefined),
    ServerState(Arr(<<>>), Undefined, Undefined),
    ServerState(Undefined, Undefined, Str("s1")) }

InitConcurrent ==
  /\ InitServer
  /\ InitClients
  /\ now = 1
  /\ nextId = 0
  /\ pc = "concurrent"

\* const body = await req.json() (line 11)
PUTReceived(id, body) ==
  /\ pc = "concurrent"
  /\ \A req \in net : req.id # id
  /\ net' = net \cup {[method |-> "PUT", id |-> id, body |-> body, phase |-> "received"]}
  /\ UNCHANGED <<serverVars, now, nextId, clientVars, pc>>

\* const current = await readServerState() (line 12)
PUTReads(req) ==
  /\ pc = "concurrent"
  /\ req \in net /\ req.phase = "received"
  /\ net' = (net \ {req}) \cup
       {[method |-> "PUT", id |-> req.id, body |-> req.body, phase |-> "read",
         current |-> readServerState(store)]}
  /\ UNCHANGED <<serverVars, now, nextId, clientVars, pc>>

\* next = {...}; await writeServerState(next) (lines 13-18)
PUTWrites(req) ==
  /\ pc = "concurrent"
  /\ req \in net /\ req.phase = "read"
  /\ LET next == PUTNext(req.body, req.current)
     IN  /\ store' = writeServerState(next)
         /\ net' = (net \ {req}) \cup
              {[method |-> "PUT", id |-> req.id, body |-> req.body, phase |-> "written",
                response |-> ResponseJSON(next)]}
  /\ UNCHANGED <<exchange, now, nextId, clientVars, pc>>

\* return Response.json(next, { status: 200 }) (line 19)
PUTReturns(req) ==
  /\ pc = "concurrent"
  /\ req \in net /\ req.phase = "written"
  /\ net' = net \ {req}
  /\ UNCHANGED <<serverVars, now, nextId, clientVars, pc>>

NextConcurrent ==
  \/ \E id \in 1..MaxRequests : \E body \in ConcurrentBodies : PUTReceived(id, body)
  \/ \E req \in net : PUTReads(req)
  \/ \E req \in net : PUTWrites(req)
  \/ \E req \in net : PUTReturns(req)

SpecConcurrent == InitConcurrent /\ [][NextConcurrent]_vars

\* C22: under any interleaving of concurrent PUTs, the write of a PUT leaves
\* every stored field its body does not carry as the document holds it then:
\* a request carrying only cooldownWeeks never writes back a stale
\* restaurants, one carrying only restaurants never a stale cooldownWeeks.
C22_ConcurrentPutKeepsOtherFields ==
  [][\A req \in net :
       PUTWrites(req) =>
         /\ req.body.restaurants = Undefined =>
               store'.restaurants = readServerState(store).restaurants
         /\ req.body.cooldownWeeks = Undefined =>
               store'.cooldownWeeks = readServerState(store).cooldownWeeks
         /\ req.body.activatedBy = Undefined =>
               store'.activatedBy = readServerState(store).activatedBy]_vars

(***************************************************************************)
(* The client component and the route together.                           *)
(***************************************************************************)
\* String.prototype.trim and .length, on the characters of the form values.
Chars(str) ==
  CASE str = "" -> <<>>
    [] str = "A" -> <<"A">>
    [] str = " A" -> <<" ", "A">>
    [] str = " " -> <<" ">>
FromChars(cs) ==
  CASE cs = <<>> -> ""
    [] cs = <<"A">> -> "A"
    [] cs = <<" ", "A">> -> " A"
    [] cs = <<" ">> -> " "
RECURSIVE TrimStart(_)
TrimStart(cs) ==
  IF cs # <<>> /\ Head(cs) = " " THEN TrimStart(Tail(cs)) ELSE cs
RECURSIVE TrimEnd(_)
TrimEnd(cs) ==
  IF cs # <<>> /\ cs[Len(cs)] = " " THEN TrimEnd(SubSeq(cs, 1, Len(cs) - 1)) ELSE cs
Trim(str) == FromChars(TrimEnd(TrimStart(Chars(str))))

MinNameLen == 1
MaxNameLen == 50
formSchema(restaurantName) ==
  Len(Chars(restaurantName)) >= MinNameLen /\ Len(Chars(restaurantName)) <= MaxNameLen

FormValues == {" A"}
\* The Select offers 1 to 4 weeks; the runs of the application try these.
CooldownInputs == {1, 2}
Attempts == {SECRET_CODE, "lizrulz!"}

isCurrentUserActivator(c) == activatedBy[c] = Str(sessionId[c])
hasBlacklisted(c) == \E i \in 1..Len(restaurants[c]) : Truthy(restaurants[c][i].blacklisted)

\* The runs of the application: "app", and "burst" where one session sends
\* its writes without waiting for the answers.
AppRuns == {"app", "burst"}

\* How many PUTs of one client the model lets be in flight at once.
InFlightLimit == IF pc = "burst" THEN MaxBurst ELSE MaxInFlight

PutsOf(c) == {m \in net : m.method = "PUT" /\ m.from = c}
GetsOf(c) == {m \in net : m.method = "GET" /\ m.from = c}

\* PersistBody that never takes the activator passed to persist.
PersistBodyOfClosure(c, nextRestaurants, nextCooldownWeeks, nextActivatedBy, closureActivatedBy) ==
  [restaurants |-> Arr(nextRestaurants), cooldownWeeks |-> Num(nextCooldownWeeks),
   activatedBy |-> closureActivatedBy]

\* The body persist sends (lines 110-114); JSON.stringify leaves out undefined.
PersistBody(c, nextRestaurants, nextCooldownWeeks, nextActivatedBy, closureActivatedBy) ==
  ServerState(Arr(nextRestaurants), Num(nextCooldownWeeks),
              IF nextActivatedBy # Undefined THEN nextActivatedBy ELSE closureActivatedBy)

\* PutRequest sending a patch: the list without the settings.
PutRequestPatching(c, body, handler) ==
  [method |-> "PUT", from |-> c, body |-> [body EXCEPT !.cooldownWeeks = Undefined],
   handler |-> handler,
   before |-> [restaurants |-> restaurants[c], cooldownWeeks |-> cooldownWeeks[c]]]

\* The fetch of persist.  handler and before are not sent: they record which
\* handler called persist and the state the handler found.
PutRequest(c, body, handler) ==
  [method |-> "PUT", from |-> c, body |-> body, handler |-> handler,
   before |-> [restaurants |-> restaurants[c], cooldownWeeks |-> cooldownWeeks[c]]]

\* A handler's state update followed by the render it causes: the memoised
\* list is recomputed when restaurants or cooldownPeriodInMs changed, the
\* cooldown badges on every render.
Rerender(c, rs, cw, recompute) ==
  /\ restaurants' = [restaurants EXCEPT ![c] = rs]
  /\ cooldownWeeks' = [cooldownWeeks EXCEPT ![c] = cw]
  /\ availableRestaurants' =
       [availableRestaurants EXCEPT ![c] =
          IF recompute THEN MemoAvailable(rs, cw, now) ELSE @]
  /\ onCooldown' = [onCooldown EXCEPT ![c] = RenderCooldown(rs, cw, now)]

\* setRestaurants(next); persist(next) of a handler of the current render.
SetAndPersist(c, next, handler) ==
  /\ Cardinality(PutsOf(c)) < InFlightLimit
  /\ Rerender(c, next, cooldownWeeks[c], TRUE)
  /\ net' = net \cup
       {PutRequest(c, PersistBody(c, next, cooldownWeeks[c], Undefined, activatedBy[c]),
                   handler)}

\* The controls of the list are drawn once the state has loaded.
Loaded(c) == mounted[c] /\ ~isStateLoading[c]

\* The load effect starts a request; an earlier load of this client is cancelled.
StartLoad(c, queue) ==
  {m \in queue : ~(m.method = "GET" /\ m.from = c)}
    \cup {[method |-> "GET", from |-> c, phase |-> "sent"]}

Mount(c) ==
  /\ pc \in AppRuns
  /\ ~mounted[c]
  /\ mounted' = [mounted EXCEPT ![c] = TRUE]
  /\ isStateLoading' = [isStateLoading EXCEPT ![c] = TRUE]
  /\ net' = StartLoad(c, net)
  /\ UNCHANGED <<serverVars, now, nextId, restaurants, cooldownWeeks, activatedBy,
                 isActivated, availableRestaurants, onCooldown, timers, toast, pc>>

LoadDone(c) ==
  /\ pc \in AppRuns
  /\ \E m \in GetsOf(c) :
       /\ m.phase = "response"
       /\ LET data == m.data
              reload == data.activatedBy = Str(sessionId[c]) /\ ~isActivated[c]
          IN  /\ Rerender(c,
                   IF IsArray(data.restaurants) THEN data.restaurants.val ELSE <<>>,
                   IF TypeOf(data.cooldownWeeks) = "number"
                     THEN data.cooldownWeeks.val ELSE 2,
                   TRUE)
              /\ activatedBy' = [activatedBy EXCEPT ![c] = data.activatedBy]
              /\ isActivated' = [isActivated EXCEPT ![c] = @ \/ reload]
              /\ isStateLoading' = [isStateLoading EXCEPT ![c] = reload]
              /\ net' = IF reload THEN StartLoad(c, net) ELSE net \ {m}
  /\ UNCHANGED <<serverVars, now, nextId, mounted, timers, toast, pc>>

IndexOf(rs, id) == {i \in 1..Len(rs) : rs[i].id = id}

\* The Add button is disabled only while the state loads (line 325).
handleAddRestaurant(c, restaurantName) ==
  /\ pc \in AppRuns
  /\ Loaded(c)
  /\ formSchema(restaurantName)
  /\ nextId < MaxLen
  /\ nextId' = nextId + 1
  /\ LET newRestaurant ==
           Restaurant(Str(randomUUID(nextId + 1)), Str(Trim(restaurantName)),
                      Bool(FALSE), Undefined)
     IN  SetAndPersist(c, Append(restaurants[c], newRestaurant), "handleAddRestaurant")
  /\ UNCHANGED <<serverVars, now, mounted, activatedBy, isActivated, isStateLoading,
                 timers, toast, pc>>

\* The row's remove button (line 404).
handleRemoveRestaurant(c, id) ==
  /\ pc \in AppRuns
  /\ Loaded(c) /\ isCurrentUserActivator(c)
  /\ IndexOf(restaurants[c], id) # {}
  /\ SetAndPersist(c, SelectSeq(restaurants[c], LAMBDA r : r.id # id),
                   "handleRemoveRestaurant")
  /\ UNCHANGED <<serverVars, now, nextId, mounted, activatedBy, isActivated,
                 isStateLoading, timers, toast, pc>>

\* The row's switch (lines 375-381).
handleToggleBlacklist(c, id) ==
  /\ pc \in AppRuns
  /\ Loaded(c) /\ isCurrentUserActivator(c)
  /\ \E i \in IndexOf(restaurants[c], id) : ~onCooldown[c][i]
  /\ SetAndPersist(c,
       Map(restaurants[c],
           LAMBDA r : IF r.id = id
                        THEN [r EXCEPT !.blacklisted = Bool(~Truthy(r.blacklisted))]
                        ELSE r),
       "handleToggleBlacklist")
  /\ UNCHANGED <<serverVars, now, nextId, mounted, activatedBy, isActivated,
                 isStateLoading, timers, toast, pc>>

\* The Reset button of the list header (lines 346-351).
handleResetBlacklist(c) ==
  /\ pc \in AppRuns
  /\ Loaded(c) /\ isCurrentUserActivator(c) /\ hasBlacklisted(c)
  /\ SetAndPersist(c,
       Map(restaurants[c], LAMBDA r : [r EXCEPT !.blacklisted = Bool(FALSE)]),
       "handleResetBlacklist")
  /\ UNCHANGED <<serverVars, now, nextId, mounted, activatedBy, isActivated,
                 isStateLoading, timers, toast, pc>>

\* The row's Reset Cooldown button (lines 386-393).
handleResetCooldown(c, id) ==
  /\ pc \in AppRuns
  /\ Loaded(c) /\ isCurrentUserActivator(c) /\ isActivated[c]
  /\ \E i \in IndexOf(restaurants[c], id) : onCooldown[c][i]
  /\ SetAndPersist(c,
       Map(restaurants[c],
           LAMBDA r : IF r.id = id THEN [r EXCEPT !.lastSelectedDate = Undefined] ELSE r),
       "handleResetCooldown")
  /\ UNCHANGED <<serverVars, now, nextId, mounted, activatedBy, isActivated,
                 isStateLoading, timers, toast, pc>>

\* Admin Controls are drawn for the activator with a non-empty list (line 513).
AdminControls(c) ==
  /\ Loaded(c)
  /\ isCurrentUserActivator(c) /\ isActivated[c] /\ Len(restaurants[c]) > 0

handleResetAllRestaurants(c) ==
  /\ pc \in AppRuns
  /\ AdminControls(c)
  /\ SetAndPersist(c,
       Map(restaurants[c],
           LAMBDA r : [r EXCEPT !.blacklisted = Bool(FALSE), !.lastSelectedDate = Undefined]),
       "handleResetAllRestaurants")
  /\ toast' = [toast EXCEPT ![c] = "Restaurants Reset!"]
  /\ UNCHANGED <<serverVars, now, nextId, mounted, activatedBy, isActivated,
                 isStateLoading, timers, pc>>

handleDeleteAllRestaurants(c) ==
  /\ pc \in AppRuns
  /\ AdminControls(c)
  /\ SetAndPersist(c, <<>>, "handleDeleteAllRestaurants")
  /\ toast' = [toast EXCEPT ![c] = "All Restaurants Deleted!"]
  /\ UNCHANGED <<serverVars, now, nextId, mounted, activatedBy, isActivated,
                 isStateLoading, timers, pc>>

\* The cooldown Select (lines 490-494): setCooldownWeeks(v); persist(undefined, v).
onValueChange(c, v) ==
  /\ pc \in AppRuns
  /\ mounted[c] /\ isCurrentUserActivator(c)
  /\ v # cooldownWeeks[c]
  /\ Cardinality(PutsOf(c)) < InFlightLimit
  /\ Rerender(c, restaurants[c], v, TRUE)
  /\ net' = net \cup
       {PutRequest(c, PersistBody(c, restaurants[c], v, Undefined, activatedBy[c]),
                   "onValueChange")}
  /\ UNCHANGED <<serverVars, now, nextId, mounted, activatedBy, isActivated,
                 isStateLoading, timers, toast, pc>>

\* The Activation card is drawn while isActivated is false (line 444).  A
\* change of isActivated runs the load effect again (line 103).
handleActivation(c, activationAttempt) ==
  /\ pc \in AppRuns
  /\ mounted[c] /\ ~isActivated[c]
  /\ IF activationAttempt = SECRET_CODE
       THEN /\ Cardinality(PutsOf(c)) < InFlightLimit
            /\ isActivated' = [isActivated EXCEPT ![c] = TRUE]
            /\ net' = StartLoad(c, net) \cup
                 {PutRequest(c,
                    PersistBody(c, restaurants[c], cooldownWeeks[c],
                                Str(sessionId[c]), activatedBy[c]),
                    "handleActivation")}
            /\ isStateLoading' = [isStateLoading EXCEPT ![c] = TRUE]
            /\ toast' = [toast EXCEPT ![c] = "Activated!"]
       ELSE /\ toast' = [toast EXCEPT ![c] = "Incorrect Code"]
            /\ UNCHANGED <<isActivated, net, isStateLoading>>
  /\ Rerender(c, restaurants[c], cooldownWeeks[c], FALSE)
  /\ UNCHANGED <<serverVars, now, nextId, mounted, activatedBy, timers, pc>>

\* The closure the timer callback runs in: the values of the render in which
\* handleGetSuggestion was called.
Closure(c) ==
  [availableRestaurants |-> availableRestaurants[c],
   restaurants |-> restaurants[c],
   cooldownWeeks |-> cooldownWeeks[c],
   activatedBy |-> activatedBy[c]]

\* The test of line 245 with the bound off by one.
NotEnoughOptionsBelowOne(available) == Len(available) < 1

NotEnoughOptions(available) == Len(available) < 2

\* The handler tests isActivated and the number of options itself (lines
\* 236-252), so it is taken as callable whenever the list is loaded; the
\* button's own conditions (lines 423-425) are the same tests.
handleGetSuggestion(c) ==
  /\ pc \in AppRuns
  /\ Loaded(c)
  /\ IF ~isActivated[c]
       THEN /\ toast' = [toast EXCEPT ![c] = "Not Activated"]
            /\ UNCHANGED timers
       ELSE IF NotEnoughOptions(availableRestaurants[c])
         THEN /\ toast' = [toast EXCEPT ![c] = "Not enough options!"]
              /\ UNCHANGED timers
         ELSE /\ Len(timers[c]) < MaxTimers
              /\ timers' = [timers EXCEPT ![c] = Append(@, Closure(c))]
              /\ UNCHANGED toast
  /\ Rerender(c, restaurants[c], cooldownWeeks[c], FALSE)
  /\ UNCHANGED <<serverVars, net, now, nextId, mounted, activatedBy, isActivated,
                 isStateLoading, pc>>

\* The restaurant list the callback sets: the closure's list with the drawn
\* restaurant stamped.
StampedList(closure, randomIndex, t) ==
  LET randomRestaurant == closure.availableRestaurants[randomIndex]
  IN  Map(closure.restaurants,
          LAMBDA r : IF r.id = randomRestaurant.id
                       THEN [r EXCEPT !.lastSelectedDate = Num(t)]
                       ELSE r)

\* The setTimeout callback (lines 259-273); randomIndex is Math.floor(Math.random() * length).
TimerFires(c, randomIndex) ==
  /\ pc \in AppRuns
  /\ timers[c] # <<>>
  /\ Cardinality(PutsOf(c)) < InFlightLimit
  /\ LET closure == Head(timers[c])
         next == StampedList(closure, randomIndex, now)
     IN  /\ randomIndex \in 1..Len(closure.availableRestaurants)
         /\ Rerender(c, next, cooldownWeeks[c], TRUE)
         /\ net' = net \cup
              {PutRequest(c,
                 PersistBody(c, next, closure.cooldownWeeks, Undefined, closure.activatedBy),
                 "handleGetSuggestion")}
  /\ timers' = [timers EXCEPT ![c] = Tail(@)]
  /\ UNCHANGED <<serverVars, now, nextId, mounted, activatedBy, isActivated,
                 isStateLoading, toast, pc>>

Tick ==
  /\ pc \in AppRuns
  /\ now < MaxTime
  /\ now' = now + 1
  /\ UNCHANGED <<serverVars, net, nextId, clientVars, pc>>

\* The route answering a client's GET (lines 4-7).
ServerGET(c) ==
  /\ pc \in AppRuns
  /\ \E m \in GetsOf(c) :
       /\ m.phase = "sent"
       /\ net' = (net \ {m}) \cup
            {[method |-> "GET", from |-> c, phase |-> "response",
              data |-> ResponseJSON(readServerState(store))]}
  /\ UNCHANGED <<serverVars, now, nextId, clientVars, pc>>

\* The route handling a client's PUT (lines 9-19); persist ignores an OK answer.
ServerPUT(m) ==
  /\ pc \in AppRuns
  /\ m \in net /\ m.method = "PUT"
  /\ store' = writeServerState(PUTNext(m.body, readServerState(store)))
  /\ net' = net \ {m}
  /\ UNCHANGED <<exchange, now, nextId, clientVars, pc>>

\* The fetch of persist fails (no answer, or an answer that is not OK): the
\* catch of persist shows a toast (lines 116-129); nothing was stored.
PersistFails(m) ==
  /\ pc \in AppRuns
  /\ m \in net /\ m.method = "PUT"
  /\ net' = net \ {m}
  /\ toast' = [toast EXCEPT ![m.from] = "Save failed"]
  /\ Rerender(m.from, restaurants[m.from], cooldownWeeks[m.from], FALSE)
  /\ UNCHANGED <<serverVars, now, nextId, mounted, activatedBy, isActivated,
                 isStateLoading, timers, pc>>

Init ==
  /\ InitServer
  /\ InitClients
  /\ now = 1
  /\ nextId = 0
  /\ pc = "app"

\* Everything client c can do, and the route answering it.
ListStep(c) ==
  \/ \E restaurantName \in FormValues : handleAddRestaurant(c, restaurantName)
  \/ \E id \in {Str(u) : u \in {UUIDs[i] : i \in 1..MaxLen}} :
       \/ handleRemoveRestaurant(c, id)
       \/ handleToggleBlacklist(c, id)
       \/ handleResetCooldown(c, id)
  \/ handleResetBlacklist(c)
  \/ handleResetAllRestaurants(c)
  \/ handleDeleteAllRestaurants(c)
  \/ \E v \in CooldownInputs : onValueChange(c, v)

SyncStep(c) ==
  \/ Mount(c)
  \/ ServerGET(c)
  \/ LoadDone(c)
  \/ \E m \in PutsOf(c) : ServerPUT(m)
  \/ \E activationAttempt \in Attempts : handleActivation(c, activationAttempt)

PickStep(c) ==
  \/ handleGetSuggestion(c)
  \/ \E randomIndex \in 1..MaxLen : TimerFires(c, randomIndex)

Next ==
  \/ Tick
  \/ \E c \in Clients : SyncStep(c) \/ ListStep(c) \/ PickStep(c)

Spec == Init /\ [][Next]_vars

\* One session using the roulette while time passes.
NextPick == Tick \/ SyncStep("c1") \/ ListStep("c1") \/ PickStep("c1")

SpecPick == Init /\ [][NextPick]_vars

\* Two sessions sharing the document, at one instant.
NextGate ==
  \E c \in Clients :
    \/ SyncStep(c)
    \/ \E restaurantName \in FormValues : handleAddRestaurant(c, restaurantName)
    \/ \E id \in {Str(u) : u \in {UUIDs[i] : i \in 1..MaxLen}} :
         handleRemoveRestaurant(c, id)
    \/ \E v \in CooldownInputs : onValueChange(c, v)

SpecGate == Init /\ [][NextGate]_vars

\* Two sessions that have both read the document, after c2 activated: the
\* document is empty with the default cooldown and c2 as its activator.
InitRace ==
  /\ store = ServerState(Arr(<<>>), Num(DefaultCooldownWeeks), Str(sessionId["c2"]))
  /\ exchange = NoExchange
  /\ net = {}
  /\ now = 1
  /\ nextId = 0
  /\ pc = "app"
  /\ mounted = [c \in Clients |-> TRUE]
  /\ restaurants = [c \in Clients |-> <<>>]
  /\ cooldownWeeks = [c \in Clients |-> DefaultCooldownWeeks]
  /\ activatedBy = [c \in Clients |-> Str(sessionId["c2"])]
  /\ isActivated = [c \in Clients |-> c = "c2"]
  /\ isStateLoading = [c \in Clients |-> FALSE]
  /\ availableRestaurants = [c \in Clients |-> <<>>]
  /\ onCooldown = [c \in Clients |-> <<>>]
  /\ timers = [c \in Clients |-> <<>>]
  /\ toast = [c \in Clients |-> IF c = "c2" THEN "Activated!" ELSE "none"]

\* From there each session changes its copy and writes it back; nobody
\* reloads, and no row is ever removed.
NextRace ==
  \E c \in Clients :
    \/ \E restaurantName \in FormValues : handleAddRestaurant(c, restaurantName)
    \/ \E v \in CooldownChoices : onValueChange(c, v)
    \/ \E m \in PutsOf(c) : ServerPUT(m)

SpecRace == InitRace /\ [][NextRace]_vars

\* One session, loaded and activated, over its own empty document.
InitBurst ==
  /\ store = ServerState(Arr(<<>>), Num(DefaultCooldownWeeks), Str(sessionId["c1"]))
  /\ exchange = NoExchange
  /\ net = {}
  /\ now = 1
  /\ nextId = 0
  /\ pc = "burst"
  /\ mounted = [c \in Clients |-> c = "c1"]
  /\ restaurants = [c \in Clients |-> <<>>]
  /\ cooldownWeeks = [c \in Clients |-> DefaultCooldownWeeks]
  /\ activatedBy = [c \in Clients |-> IF c = "c1" THEN Str(sessionId["c1"]) ELSE Undefined]
  /\ isActivated = [c \in Clients |-> c = "c1"]
  /\ isStateLoading = [c \in Clients |-> c # "c1"]
  /\ availableRestaurants = [c \in Clients |-> <<>>]
  /\ onCooldown = [c \in Clients |-> <<>>]
  /\ timers = [c \in Clients |-> <<>>]
  /\ toast = [c \in Clients |-> IF c = "c1" THEN "Activated!" ELSE "none"]

\* It changes its list and its cooldown; persist is not awaited, so several
\* PUTs are in flight and the route handles them in any order.
NextBurst ==
  \/ \E restaurantName \in FormValues : handleAddRestaurant("c1", restaurantName)
  \/ \E id \in {Str(u) : u \in {UUIDs[i] : i \in 1..MaxLen}} :
       handleRemoveRestaurant("c1", id)
  \/ \E v \in CooldownInputs : onValueChange("c1", v)
  \/ \E m \in PutsOf("c1") : ServerPUT(m)

SpecBurst == InitBurst /\ [][NextBurst]_vars

\* One session whose writes may fail.
NextReject ==
  \/ SyncStep("c1")
  \/ \E restaurantName \in FormValues : handleAddRestaurant("c1", restaurantName)
  \/ \E id \in {Str(u) : u \in {UUIDs[i] : i \in 1..MaxLen}} :
       handleRemoveRestaurant("c1", id)
  \/ \E v \in CooldownInputs : onValueChange("c1", v)
  \/ \E m \in PutsOf("c1") : PersistFails(m)

SpecReject == Init /\ [][NextReject]_vars

\* One session typing any of these into the add form: nothing, a name, a
\* padded name, a blank.
FormInputs == {"", "A", " A", " "}

NextForm ==
  \/ SyncStep("c1")
  \/ \E restaurantName \in FormInputs : handleAddRestaurant("c1", restaurantName)
  \/ \E id \in {Str(u) : u \in {UUIDs[i] : i \in 1..MaxLen}} :
       handleRemoveRestaurant("c1", id)

SpecForm == Init /\ [][NextForm]_vars

(***************************************************************************)
(* Claims about the client, under SpecPick and SpecGate.                   *)
(***************************************************************************)
\* Eligibility as the specification words it: not blacklisted, and never
\* stamped or stamped longer ago than the window.
SpecEligible(r, cw, t) ==
  /\ r.blacklisted = Bool(FALSE)
  /\ Stamped(r) => t - r.lastSelectedDate.val > cw * WeekMs

SpecEligibleRows(c) ==
  {i \in 1..Len(restaurants[c]) : SpecEligible(restaurants[c][i], cooldownWeeks[c], now)}

\* What a client holds besides what it shows: its React state, its
\* localStorage flag, its timers.
LocalState(c) ==
  <<restaurants[c], cooldownWeeks[c], activatedBy[c], isActivated[c],
    isStateLoading[c], timers[c]>>

\* C2: add, remove, toggle, the resets, delete all and the cooldown change
\* change the local list or settings and issue a PUT only in a client whose
\* activatedBy equals its sessionId.
C2_MutationsOnlyByActivator ==
  [][\A c \in Clients : ListStep(c) => isCurrentUserActivator(c)]_vars

\* C3: the PUT of an activation with the correct secret, once processed,
\* leaves the stored activatedBy equal to the caller's session id; an attempt
\* that is not exactly the secret sends nothing, changes neither the stored
\* document nor the client's local state nor its unlocked flag, and is
\* reported.
C3_Activation ==
  [][/\ \A m \in net :
          (m.method = "PUT" /\ m.handler = "handleActivation" /\ ServerPUT(m)) =>
            store'.activatedBy = Str(sessionId[m.from])
     /\ \A c \in Clients : \A attempt \in Attempts :
          (attempt # SECRET_CODE /\ handleActivation(c, attempt)) =>
            /\ UNCHANGED <<store, net>>
            /\ LocalState(c)' = LocalState(c)
            /\ toast'[c] = "Incorrect Code"]_vars

\* Session s2 has activated and is the stored activator, while c1 is still
\* locked after an attempt in the wrong case was refused.
C3_Witness ==
  /\ store # NoFile
  /\ store.activatedBy = Str(sessionId["c2"])
  /\ isActivated["c2"] /\ ~isActivated["c1"]
  /\ toast["c1"] = "Incorrect Code"

\* C6: the restaurant the timer callback stamps is, at that instant, a row of
\* the client's current list that is not blacklisted and not within its
\* cooldown window under the current cooldownWeeks.
C6_PickIsCurrentlyEligible ==
  [][\A c \in Clients : \A randomIndex \in 1..MaxLen :
       TimerFires(c, randomIndex) =>
         \E i \in SpecEligibleRows(c) :
           restaurants[c][i].id = Head(timers[c]).availableRestaurants[randomIndex].id]_vars

\* C7: with fewer than two eligible restaurants handleGetSuggestion starts no
\* timer, stamps nothing, sends nothing and leaves local and stored state as
\* they are, telling an unlocked session 'Not enough options!'; and the list
\* a timer callback draws from never has fewer than two members.
C7_NoPickBelowTwo ==
  [][\A c \in Clients :
       /\ (Cardinality(SpecEligibleRows(c)) < 2 /\ handleGetSuggestion(c)) =>
            /\ UNCHANGED <<store, net>>
            /\ LocalState(c)' = LocalState(c)
            /\ isActivated[c] => toast'[c] = "Not enough options!"
       /\ \A randomIndex \in 1..MaxLen :
            TimerFires(c, randomIndex) =>
              Len(Head(timers[c]).availableRestaurants) >= 2]_vars

\* An unlocked session with a single eligible restaurant has been refused,
\* after a pick was made from two.
C7_Witness ==
  /\ isActivated["c1"]
  /\ toast["c1"] = "Not enough options!"
  /\ Cardinality(SpecEligibleRows("c1")) = 1
  /\ Len(restaurants["c1"]) = 2
  /\ timers["c1"] = <<>>

\* C8: the callback's list is the client's list of that instant with the
\* chosen restaurant's lastSelectedDate set to now and nothing else changed
\* (same ids, same order), and a PUT carrying it is in flight.
C8_PickStampsOnlyChosen ==
  [][\A c \in Clients : \A randomIndex \in 1..MaxLen :
       TimerFires(c, randomIndex) =>
         LET chosen == Head(timers[c]).availableRestaurants[randomIndex]
         IN  /\ Len(restaurants'[c]) = Len(restaurants[c])
             /\ \A i \in 1..Len(restaurants[c]) :
                  restaurants'[c][i] =
                    IF restaurants[c][i].id = chosen.id
                      THEN [restaurants[c][i] EXCEPT !.lastSelectedDate = Num(now)]
                      ELSE restaurants[c][i]
             /\ \E m \in net' :
                  /\ m.method = "PUT" /\ m.from = c
                  /\ m.body.restaurants = Arr(restaurants'[c])]_vars

\* C17: every write of a client carries the whole document and replaces the
\* stored restaurants and cooldownWeeks with its own, whatever is stored; so
\* of two clients writing back different fields, the later write undoes the
\* earlier one's change (the lost update is the state of C17_Witness).
C17_WriteReplacesDocument ==
  [][\A m \in net :
       (m.method = "PUT" /\ ServerPUT(m)) =>
         /\ IsArray(m.body.restaurants)
         /\ TypeOf(m.body.cooldownWeeks) = "number"
         /\ store'.restaurants = m.body.restaurants
         /\ store'.cooldownWeeks = m.body.cooldownWeeks]_vars

\* Both sessions read the empty document; c1 added a restaurant and c2, who
\* never held a row, set the cooldown to 1; both PUTs were processed, and the
\* stored document has c2's cooldown but not c1's restaurant.
C17_Witness ==
  /\ net = {}
  /\ Len(restaurants["c1"]) = 1 /\ restaurants["c2"] = <<>>
  /\ cooldownWeeks["c1"] = 2 /\ cooldownWeeks["c2"] = 1
  /\ store # NoFile
  /\ store.restaurants = Arr(<<>>)
  /\ store.cooldownWeeks = Num(1)

\* C18: eligibility is computed afresh at each use: when a suggestion is
\* requested by an unlocked session, and when the timer callback draws, the
\* candidate list is the eligible list of the client's current restaurants
\* and cooldownWeeks at the current time.  (The draw is stated for a list and
\* a setting that did not change since the request; a list changed in between
\* is the case of C6.)
C18_EligibilityComputedFresh ==
  [][\A c \in Clients :
       /\ (isActivated[c] /\ handleGetSuggestion(c)) =>
            availableRestaurants[c] =
              MemoAvailable(restaurants[c], cooldownWeeks[c], now)
       /\ \A randomIndex \in 1..MaxLen :
            (/\ TimerFires(c, randomIndex)
             /\ Head(timers[c]).restaurants = restaurants[c]
             /\ Head(timers[c]).cooldownWeeks = cooldownWeeks[c]) =>
              Head(timers[c]).availableRestaurants =
                MemoAvailable(restaurants[c], cooldownWeeks[c], now)]_vars

\* C19: the stored activatedBy changes only when the PUT of an activation
\* (a session that supplied the correct secret) is processed, and then to
\* that session's id; no PUT of add, remove, toggle, the resets, delete all,
\* the cooldown change or a pick changes it.
C19_ActivatedByChangedOnlyByActivation ==
  [][\A m \in net :
       (/\ m.method = "PUT"
        /\ ServerPUT(m)
        /\ store'.activatedBy # readServerState(store).activatedBy) =>
         /\ m.handler = "handleActivation"
         /\ store'.activatedBy = Str(sessionId[m.from])]_vars

\* C20: after a session activated with the correct secret, with no other
\* session activating, once none of its requests (the activation PUT, the
\* reload GET) is in flight any more, its local activatedBy is its sessionId.
C20_ActivatorKnowsItself ==
  \A c \in Clients :
    (/\ isActivated[c]
     /\ PutsOf(c) = {} /\ GetsOf(c) = {}
     /\ \A d \in Clients \ {c} : ~mounted[d]) =>
      isCurrentUserActivator(c)

\* C21: processing the PUT of an activation leaves the stored restaurants and
\* cooldownWeeks as they were just before it, whatever the activating
\* client's own copy holds (empty, not yet loaded, stale).
C21_ActivationChangesOnlyActivatedBy ==
  [][\A m \in net :
       (m.method = "PUT" /\ m.handler = "handleActivation" /\ ServerPUT(m)) =>
         /\ store'.restaurants = readServerState(store).restaurants
         /\ store'.cooldownWeeks = readServerState(store).cooldownWeeks]_vars

\* C23: with a single client and no failures, once every PUT it issued has
\* been processed, in whatever order, the stored restaurants and
\* cooldownWeeks are the client's local restaurants and cooldownWeeks.
C23_StoreConvergesToLocal ==
  (pc = "burst" /\ PutsOf("c1") = {}) =>
    /\ store.restaurants = Arr(restaurants["c1"])
    /\ store.cooldownWeeks = Num(cooldownWeeks["c1"])

\* C24: a pick stamps a restaurant and issues its PUT only in a session that
\* is the activator (its activatedBy equals its sessionId), not in one that
\* merely holds the unlocked flag.
C24_PickOnlyByActivator ==
  [][\A c \in Clients : \A randomIndex \in 1..MaxLen :
       TimerFires(c, randomIndex) => isCurrentUserActivator(c)]_vars

\* C25: when a PUT of persist fails, the user is told, the request is not
\* sent again, and the client's restaurants and cooldownWeeks are what they
\* were before the mutation that sent it.
C25_FailedPersistLeavesLocalState ==
  [][\A m \in net :
       (m.method = "PUT" /\ PersistFails(m)) =>
         /\ toast'[m.from] = "Save failed"
         /\ net' = net \ {m}
         /\ restaurants'[m.from] = m.before.restaurants
         /\ cooldownWeeks'[m.from] = m.before.cooldownWeeks]_vars

\* A name as the data model has it: a trimmed string of 1 to 50 characters.
NameIsTrimmedAndSized(name) ==
  /\ name.type = "string"
  /\ Trim(name.val) = name.val
  /\ Len(Chars(name.val)) >= 1 /\ Len(Chars(name.val)) <= 50

\* C27: every restaurant of the stored document has a name without leading
\* or trailing whitespace that is 1 to 50 characters long, whatever the add
\* form accepted.
C27_StoredNamesTrimmedAndSized ==
  store # NoFile =>
    \A i \in 1..Len(store.restaurants.val) :
      NameIsTrimmedAndSized(store.restaurants.val[i].name)

====
